---- MODULE Spec2Model ----
(***************************************************************************)
(* The ledger state machine of the payment engine                          *)
(* (src/src/payment_engine.rs, src/src/types.rs) driven by the record loop *)
(* of src/src/main.rs.                                                     *)
(*                                                                         *)
(* Amounts are f64 in the source.  The model draws them from whole numbers *)
(* of small magnitude, on which f64 addition, subtraction and comparison   *)
(* are exact, so Integers arithmetic is the arithmetic of the code on the  *)
(* inputs the model enumerates.  Option<f64> is a sequence of length 0     *)
(* (None) or 1 (Some(x)).  A HashMap is a function whose DOMAIN is the set *)
(* of keys present.                                                        *)
(***************************************************************************)
EXTENDS Integers, Sequences, FiniteSets, TLC

\* ---------------------------------------------------------------- bounds
\* Longest input stream the record loop consumes.
MaxRecords == 4
\* Largest amount of a deposit or withdrawal record.
MaxAmount == 1

\* The client ids (u16) and transaction ids (u32) the input rows use.
ClientIds == {1, 2}
TxIds == {1, 2}

\* ------------------------------------------------------------ data model
\* Option<f64>
None == <<>>
Some(x) == <<x>>
IsSome(o) == Len(o) = 1
Unwrap(o) == o[1]

\* struct Transaction { type, client, tx, amount }
Transaction(ty, c, t, a) == [type |-> ty, client |-> c, tx |-> t, amount |-> a]

\* Client::new()
ClientNew == [available |-> 0, held |-> 0, total |-> 0, locked |-> FALSE]

\* HashMap::new()
EmptyMap == [k \in {} |-> k]
\* HashMap::contains_key
ContainsKey(m, k) == k \in DOMAIN m
\* HashMap::insert (replaces the value of a key already present)
Insert(m, k, v) == [x \in (DOMAIN m) \cup {k} |-> IF x = k THEN v ELSE m[x]]

\* PaymentEngine::new()
PaymentEngineNew ==
    [clients |-> EmptyMap,
     transactions |-> EmptyMap,
     disputed_transactions |-> EmptyMap]

\* ---------------------------------------------------------------- handlers
\* Each handler maps the engine before the call to the engine after it.

\* Mutant: the lock is not consulted before a deposit is applied.
process_deposit_ignores_lock(self, txn) ==
    LET clients1 == IF ContainsKey(self.clients, txn.client)
                    THEN self.clients
                    ELSE Insert(self.clients, txn.client, ClientNew)
        client == clients1[txn.client]
        client1 == IF IsSome(txn.amount)
                   THEN [client EXCEPT
                           !.available = @ + Unwrap(txn.amount),
                           !.total = @ + Unwrap(txn.amount)]
                   ELSE client
    IN  [self EXCEPT
           !.clients = Insert(clients1, txn.client, client1),
           !.transactions = Insert(self.transactions, txn.tx, txn)]

\* Mutant: clients.insert(txn.client, Client::new()) in place of
\* entry(..).or_insert(..), so every deposit starts from a fresh account.
process_deposit_reinsert(self, txn) ==
    LET client == ClientNew
        client1 == IF IsSome(txn.amount)
                   THEN [client EXCEPT
                           !.available = @ + Unwrap(txn.amount),
                           !.total = @ + Unwrap(txn.amount)]
                   ELSE client
    IN  [self EXCEPT
           !.clients = Insert(self.clients, txn.client, client1),
           !.transactions = Insert(self.transactions, txn.tx, txn)]

process_deposit(self, txn) ==
    LET clients1 == IF ContainsKey(self.clients, txn.client)
                    THEN self.clients
                    ELSE Insert(self.clients, txn.client, ClientNew)
        client == clients1[txn.client]
    IN  IF ~client.locked
        THEN LET client1 == IF IsSome(txn.amount)
                            THEN [client EXCEPT
                                    !.available = @ + Unwrap(txn.amount),
                                    !.total = @ + Unwrap(txn.amount)]
                            ELSE client
             IN  [self EXCEPT
                    !.clients = Insert(clients1, txn.client, client1),
                    !.transactions = Insert(self.transactions, txn.tx, txn)]
        ELSE [self EXCEPT !.clients = clients1]

\* Mutant: the funds check available >= amount is missing.
process_withdrawal_unchecked(self, txn) ==
    IF ContainsKey(self.clients, txn.client)
    THEN LET client == self.clients[txn.client]
         IN  IF ~client.locked /\ IsSome(txn.amount)
             THEN [self EXCEPT
                     !.clients[txn.client].available = @ - Unwrap(txn.amount),
                     !.clients[txn.client].total = @ - Unwrap(txn.amount),
                     !.transactions = Insert(self.transactions, txn.tx, txn)]
             ELSE self
    ELSE self

\* Mutant: a successful withdrawal debits available but not total.
process_withdrawal_keeps_total(self, txn) ==
    IF ContainsKey(self.clients, txn.client)
    THEN LET client == self.clients[txn.client]
         IN  IF ~client.locked /\ IsSome(txn.amount)
                /\ client.available >= Unwrap(txn.amount)
             THEN [self EXCEPT
                     !.clients[txn.client].available = @ - Unwrap(txn.amount),
                     !.transactions = Insert(self.transactions, txn.tx, txn)]
             ELSE self
    ELSE self

\* Mutant: the account is fetched with entry(..).or_insert(Client::new()), as
\* in process_deposit, so a withdrawal creates the account it does not find.
process_withdrawal_creates_account(self, txn) ==
    LET clients1 == IF ContainsKey(self.clients, txn.client)
                    THEN self.clients
                    ELSE Insert(self.clients, txn.client, ClientNew)
        client == clients1[txn.client]
    IN  IF ~client.locked /\ IsSome(txn.amount)
           /\ client.available >= Unwrap(txn.amount)
        THEN [self EXCEPT
                !.clients = Insert(clients1, txn.client,
                    [client EXCEPT
                       !.available = @ - Unwrap(txn.amount),
                       !.total = @ - Unwrap(txn.amount)]),
                !.transactions = Insert(self.transactions, txn.tx, txn)]
        ELSE [self EXCEPT !.clients = clients1]

process_withdrawal(self, txn) ==
    IF ContainsKey(self.clients, txn.client)
    THEN LET client == self.clients[txn.client]
         IN  IF ~client.locked /\ IsSome(txn.amount)
                /\ client.available >= Unwrap(txn.amount)
             THEN [self EXCEPT
                     !.clients[txn.client].available = @ - Unwrap(txn.amount),
                     !.clients[txn.client].total = @ - Unwrap(txn.amount),
                     !.transactions = Insert(self.transactions, txn.tx, txn)]
             ELSE self
    ELSE self

\* Mutant: a dispute debits available without crediting held.
process_dispute_drops_held(self, txn) ==
    IF ContainsKey(self.transactions, txn.tx)
    THEN LET original_txn == self.transactions[txn.tx]
         IN  IF original_txn.client = txn.client
             THEN LET clients1 ==
                        IF ContainsKey(self.clients, original_txn.client)
                           /\ IsSome(original_txn.amount)
                        THEN [self.clients EXCEPT
                                ![original_txn.client].available =
                                    @ - Unwrap(original_txn.amount)]
                        ELSE self.clients
                  IN  [self EXCEPT
                         !.clients = clients1,
                         !.disputed_transactions =
                             Insert(self.disputed_transactions, txn.tx, txn)]
             ELSE self
    ELSE self

\* Mutant: the client of the dispute is not compared with the client of the
\* original transaction.
process_dispute_any_client(self, txn) ==
    IF ContainsKey(self.transactions, txn.tx)
    THEN LET original_txn == self.transactions[txn.tx]
             clients1 ==
                IF ContainsKey(self.clients, original_txn.client)
                   /\ IsSome(original_txn.amount)
                THEN [self.clients EXCEPT
                        ![original_txn.client].available =
                            @ - Unwrap(original_txn.amount),
                        ![original_txn.client].held =
                            @ + Unwrap(original_txn.amount)]
                ELSE self.clients
         IN  [self EXCEPT
                !.clients = clients1,
                !.disputed_transactions =
                    Insert(self.disputed_transactions, txn.tx, txn)]
    ELSE self

\* Mutant: the dispute is registered outside the lookup of the original
\* transaction, so also when the tx id is unknown.
process_dispute_registers_unknown(self, txn) ==
    LET clients1 ==
           IF /\ ContainsKey(self.transactions, txn.tx)
              /\ self.transactions[txn.tx].client = txn.client
              /\ ContainsKey(self.clients, txn.client)
              /\ IsSome(self.transactions[txn.tx].amount)
           THEN [self.clients EXCEPT
                   ![txn.client].available =
                       @ - Unwrap(self.transactions[txn.tx].amount),
                   ![txn.client].held =
                       @ + Unwrap(self.transactions[txn.tx].amount)]
           ELSE self.clients
    IN  [self EXCEPT
           !.clients = clients1,
           !.disputed_transactions =
               Insert(self.disputed_transactions, txn.tx, txn)]

\* Mutant: a dispute moves funds only when the account is not locked, as
\* deposits and withdrawals do.
process_dispute_respects_lock(self, txn) ==
    IF ContainsKey(self.transactions, txn.tx)
    THEN LET original_txn == self.transactions[txn.tx]
         IN  IF original_txn.client = txn.client
             THEN LET clients1 ==
                        IF /\ ContainsKey(self.clients, original_txn.client)
                           /\ ~self.clients[original_txn.client].locked
                           /\ IsSome(original_txn.amount)
                        THEN [self.clients EXCEPT
                                ![original_txn.client].available =
                                    @ - Unwrap(original_txn.amount),
                                ![original_txn.client].held =
                                    @ + Unwrap(original_txn.amount)]
                        ELSE self.clients
                  IN  [self EXCEPT
                         !.clients = clients1,
                         !.disputed_transactions =
                             Insert(self.disputed_transactions, txn.tx, txn)]
             ELSE self
    ELSE self

\* Mutant: a dispute moves funds only when available >= amount, as a
\* withdrawal does.
process_dispute_checks_funds(self, txn) ==
    IF ContainsKey(self.transactions, txn.tx)
    THEN LET original_txn == self.transactions[txn.tx]
         IN  IF original_txn.client = txn.client
             THEN LET clients1 ==
                        IF /\ ContainsKey(self.clients, original_txn.client)
                           /\ IsSome(original_txn.amount)
                           /\ self.clients[original_txn.client].available
                                  >= Unwrap(original_txn.amount)
                        THEN [self.clients EXCEPT
                                ![original_txn.client].available =
                                    @ - Unwrap(original_txn.amount),
                                ![original_txn.client].held =
                                    @ + Unwrap(original_txn.amount)]
                        ELSE self.clients
                  IN  [self EXCEPT
                         !.clients = clients1,
                         !.disputed_transactions =
                             Insert(self.disputed_transactions, txn.tx, txn)]
             ELSE self
    ELSE self

process_dispute(self, txn) ==
    IF ContainsKey(self.transactions, txn.tx)
    THEN LET original_txn == self.transactions[txn.tx]
         IN  IF original_txn.client = txn.client
             THEN LET clients1 ==
                        IF ContainsKey(self.clients, original_txn.client)
                           /\ IsSome(original_txn.amount)
                        THEN [self.clients EXCEPT
                                ![original_txn.client].available =
                                    @ - Unwrap(original_txn.amount),
                                ![original_txn.client].held =
                                    @ + Unwrap(original_txn.amount)]
                        ELSE self.clients
                  IN  [self EXCEPT
                         !.clients = clients1,
                         !.disputed_transactions =
                             Insert(self.disputed_transactions, txn.tx, txn)]
             ELSE self
    ELSE self

\* Mutant: a resolve credits available without debiting held.
process_resolve_keeps_held(self, txn) ==
    IF ContainsKey(self.disputed_transactions, txn.tx)
       /\ ContainsKey(self.transactions, txn.tx)
    THEN LET original_txn == self.transactions[txn.tx]
         IN  IF original_txn.client = txn.client
                /\ ContainsKey(self.clients, original_txn.client)
                /\ IsSome(original_txn.amount)
             THEN [self EXCEPT
                     !.clients[original_txn.client].available =
                         @ + Unwrap(original_txn.amount)]
             ELSE self
    ELSE self

\* Mutant: a resolve does not look the tx id up in disputed_transactions.
process_resolve_undisputed(self, txn) ==
    IF ContainsKey(self.transactions, txn.tx)
    THEN LET original_txn == self.transactions[txn.tx]
         IN  IF original_txn.client = txn.client
                /\ ContainsKey(self.clients, original_txn.client)
                /\ IsSome(original_txn.amount)
             THEN [self EXCEPT
                     !.clients[original_txn.client].available =
                         @ + Unwrap(original_txn.amount),
                     !.clients[original_txn.client].held =
                         @ - Unwrap(original_txn.amount)]
             ELSE self
    ELSE self

\* Mutant: an applied resolve closes the dispute by removing its entry from
\* disputed_transactions.
process_resolve_clears_dispute(self, txn) ==
    IF ContainsKey(self.disputed_transactions, txn.tx)
       /\ ContainsKey(self.transactions, txn.tx)
    THEN LET original_txn == self.transactions[txn.tx]
         IN  IF original_txn.client = txn.client
                /\ ContainsKey(self.clients, original_txn.client)
                /\ IsSome(original_txn.amount)
             THEN [self EXCEPT
                     !.clients[original_txn.client].available =
                         @ + Unwrap(original_txn.amount),
                     !.clients[original_txn.client].held =
                         @ - Unwrap(original_txn.amount),
                     !.disputed_transactions =
                         [k \in (DOMAIN @) \ {txn.tx} |-> @[k]]]
             ELSE self
    ELSE self

process_resolve(self, txn) ==
    IF ContainsKey(self.disputed_transactions, txn.tx)
       /\ ContainsKey(self.transactions, txn.tx)
    THEN LET original_txn == self.transactions[txn.tx]
         IN  IF original_txn.client = txn.client
                /\ ContainsKey(self.clients, original_txn.client)
                /\ IsSome(original_txn.amount)
             THEN [self EXCEPT
                     !.clients[original_txn.client].available =
                         @ + Unwrap(original_txn.amount),
                     !.clients[original_txn.client].held =
                         @ - Unwrap(original_txn.amount)]
             ELSE self
    ELSE self

\* Mutant: the clamp of available and total to zero is missing.
process_chargeback_no_clamp(self, txn) ==
    IF ContainsKey(self.disputed_transactions, txn.tx)
       /\ ContainsKey(self.transactions, txn.tx)
    THEN LET original_txn == self.transactions[txn.tx]
         IN  IF original_txn.client = txn.client
                /\ ContainsKey(self.clients, original_txn.client)
                /\ IsSome(original_txn.amount)
             THEN LET amount == Unwrap(original_txn.amount)
                      client == self.clients[original_txn.client]
                  IN  [self EXCEPT
                         !.clients[original_txn.client] =
                            [available |-> client.available,
                             held |-> client.held - amount,
                             total |-> client.total - amount,
                             locked |-> TRUE]]
             ELSE self
    ELSE self

\* Mutant: the clamp zeroes held together with available and total.
process_chargeback_clamps_held(self, txn) ==
    IF ContainsKey(self.disputed_transactions, txn.tx)
       /\ ContainsKey(self.transactions, txn.tx)
    THEN LET original_txn == self.transactions[txn.tx]
         IN  IF original_txn.client = txn.client
                /\ ContainsKey(self.clients, original_txn.client)
                /\ IsSome(original_txn.amount)
             THEN LET amount == Unwrap(original_txn.amount)
                      client == self.clients[original_txn.client]
                      total1 == client.total - amount
                      clamp == client.available < 0 \/ total1 < 0
                  IN  [self EXCEPT
                         !.clients[original_txn.client] =
                            [available |-> IF clamp THEN 0 ELSE client.available,
                             held |-> IF clamp THEN 0 ELSE client.held - amount,
                             total |-> IF clamp THEN 0 ELSE total1,
                             locked |-> TRUE]]
             ELSE self
    ELSE self

\* Mutant: the client of the chargeback is not compared with the client of
\* the original transaction.
process_chargeback_any_client(self, txn) ==
    IF ContainsKey(self.disputed_transactions, txn.tx)
       /\ ContainsKey(self.transactions, txn.tx)
    THEN LET original_txn == self.transactions[txn.tx]
         IN  IF ContainsKey(self.clients, original_txn.client)
                /\ IsSome(original_txn.amount)
             THEN LET amount == Unwrap(original_txn.amount)
                      client == self.clients[original_txn.client]
                      total1 == client.total - amount
                      clamp == client.available < 0 \/ total1 < 0
                  IN  [self EXCEPT
                         !.clients[original_txn.client] =
                            [available |-> IF clamp THEN 0 ELSE client.available,
                             held |-> client.held - amount,
                             total |-> IF clamp THEN 0 ELSE total1,
                             locked |-> TRUE]]
             ELSE self
    ELSE self

process_chargeback(self, txn) ==
    IF ContainsKey(self.disputed_transactions, txn.tx)
       /\ ContainsKey(self.transactions, txn.tx)
    THEN LET original_txn == self.transactions[txn.tx]
         IN  IF original_txn.client = txn.client
                /\ ContainsKey(self.clients, original_txn.client)
                /\ IsSome(original_txn.amount)
             THEN LET amount == Unwrap(original_txn.amount)
                      client == self.clients[original_txn.client]
                      total1 == client.total - amount
                      clamp == client.available < 0 \/ total1 < 0
                  IN  [self EXCEPT
                         !.clients[original_txn.client] =
                            [available |-> IF clamp THEN 0 ELSE client.available,
                             held |-> client.held - amount,
                             total |-> IF clamp THEN 0 ELSE total1,
                             locked |-> TRUE]]
             ELSE self
    ELSE self

process_transaction(self, txn) ==
    CASE txn.type = "Deposit" -> process_deposit(self, txn)
      [] txn.type = "Withdrawal" -> process_withdrawal(self, txn)
      [] txn.type = "Dispute" -> process_dispute(self, txn)
      [] txn.type = "Resolve" -> process_resolve(self, txn)
      [] txn.type = "Chargeback" -> process_chargeback(self, txn)

\* ------------------------------------------------------------------ inputs
\* Amount column of a deposit or withdrawal row: empty, or a number.
\* The numbers are the whole amounts -1 and 1..MaxAmount: the parser accepts any
\* f64, negative ones included.
Amounts == {None} \cup {Some(x) : x \in {-1} \cup 1..MaxAmount}

\* Rows the parser can hand to the engine.  Dispute, resolve and chargeback
\* rows carry no amount column.
Records(ty) ==
    IF ty \in {"Deposit", "Withdrawal"}
    THEN {Transaction(ty, c, t, a) : c \in ClientIds, t \in TxIds, a \in Amounts}
    ELSE {Transaction(ty, c, t, None) : c \in ClientIds, t \in TxIds}

\* ------------------------------------------------------------------- state
VARIABLES
    clients,                \* PaymentEngine.clients
    transactions,           \* PaymentEngine.transactions
    disputed_transactions,  \* PaymentEngine.disputed_transactions
    pc,                     \* position of main: "loop" or "done"
    processed,              \* number of records the loop has consumed
    \* History variables (read by the properties only, never by the handlers):
    last,                   \* the record processed last, as an Option
    before,                 \* account of last's client before it was processed
    dispute_snap,           \* account before the dispute that was last, or
                            \* that a resolve of the same id has just followed
    net,                    \* per client: deposits minus successful withdrawals,
                            \* None once a dispute/resolve/chargeback named it
    repeated,               \* last is the same record as the one before it
    seen_tx,                \* tx ids of the deposit and withdrawal records so
                            \* far (kept while clean_input holds)
    clean_input             \* the input so far is as the data model has it: no
                            \* negative amount, and no deposit or withdrawal
                            \* record reusing the tx id of an earlier one

engine_vars == <<clients, transactions, disputed_transactions>>
history_vars == <<last, before, dispute_snap, net, repeated, seen_tx, clean_input>>
vars == <<clients, transactions, disputed_transactions, pc, processed,
          last, before, dispute_snap, net, repeated, seen_tx, clean_input>>

\* The engine as one value, as the handlers take it.
Engine ==
    [clients |-> clients,
     transactions |-> transactions,
     disputed_transactions |-> disputed_transactions]

Init ==
    /\ clients = PaymentEngineNew.clients
    /\ transactions = PaymentEngineNew.transactions
    /\ disputed_transactions = PaymentEngineNew.disputed_transactions
    /\ pc = "loop"
    /\ processed = 0
    /\ last = None
    /\ before = None
    /\ dispute_snap = None
    /\ net = [c \in ClientIds |-> Some(0)]
    /\ repeated = FALSE
    /\ seen_tx = {}
    /\ clean_input = TRUE

\* txn names a stored transaction of its own client.
RefersToOwnStored(self, txn) ==
    /\ ContainsKey(self.transactions, txn.tx)
    /\ self.transactions[txn.tx].client = txn.client

\* txn is a withdrawal that reaches and passes the funds check.
PassesFundsCheck(self, txn) ==
    /\ txn.type = "Withdrawal"
    /\ ContainsKey(self.clients, txn.client)
    /\ ~self.clients[txn.client].locked
    /\ IsSome(txn.amount)
    /\ self.clients[txn.client].available >= Unwrap(txn.amount)

\* The input stays as the data model has it when txn is appended to it.
CleanAfter(txn) ==
    /\ clean_input
    /\ IsSome(txn.amount) => Unwrap(txn.amount) >= 0
    /\ txn.type \in {"Deposit", "Withdrawal"} => txn.tx \notin seen_tx

\* The history after txn is processed in the current state.
Record(txn) ==
    /\ last' = Some(txn)
    /\ before' = IF ContainsKey(clients, txn.client)
                 THEN Some(clients[txn.client])
                 ELSE None
    /\ dispute_snap' =
          IF /\ txn.type = "Dispute"
             /\ RefersToOwnStored(Engine, txn)
             /\ ContainsKey(clients, txn.client)
          THEN Some([client |-> txn.client, tx |-> txn.tx,
                     account |-> clients[txn.client]])
          ELSE IF /\ txn.type = "Resolve"
                  /\ IsSome(dispute_snap)
                  /\ Unwrap(last).type = "Dispute"
                  /\ Unwrap(dispute_snap).client = txn.client
                  /\ Unwrap(dispute_snap).tx = txn.tx
          THEN dispute_snap
          ELSE None
    /\ net' = [net EXCEPT ![txn.client] =
                 IF txn.type \notin {"Deposit", "Withdrawal"} \/ ~IsSome(@)
                 THEN None
                 ELSE IF txn.type = "Deposit" /\ IsSome(txn.amount)
                 THEN Some(Unwrap(@) + Unwrap(txn.amount))
                 ELSE IF PassesFundsCheck(Engine, txn)
                 THEN Some(Unwrap(@) - Unwrap(txn.amount))
                 ELSE @]
    /\ repeated' = (last = Some(txn))
    /\ clean_input' = CleanAfter(txn)
    /\ seen_tx' = IF ~CleanAfter(txn) THEN {}
                  ELSE IF txn.type \in {"Deposit", "Withdrawal"}
                  THEN seen_tx \cup {txn.tx}
                  ELSE seen_tx

\* Mutant: process_transaction returns an error for a record it rejects (one
\* that changes nothing) and the loop propagates it, ending the run.
Consume_aborts_on_rejected(txn) ==
    /\ pc = "loop"
    /\ processed < MaxRecords
    /\ LET next == process_transaction(Engine, txn)
       IN  /\ clients' = next.clients
           /\ transactions' = next.transactions
           /\ disputed_transactions' = next.disputed_transactions
           /\ pc' = IF next = Engine THEN "failed" ELSE pc
    /\ processed' = processed + 1
    /\ Record(txn)

\* One iteration of the loop of main: the iterator yields txn and the engine
\* processes it.
Consume(txn) ==
    /\ pc = "loop"
    /\ processed < MaxRecords
    /\ LET next == process_transaction(Engine, txn)
       IN  /\ clients' = next.clients
           /\ transactions' = next.transactions
           /\ disputed_transactions' = next.disputed_transactions
    /\ processed' = processed + 1
    /\ pc' = pc
    /\ Record(txn)

Deposit == \E txn \in Records("Deposit") : Consume(txn)
Withdrawal == \E txn \in Records("Withdrawal") : Consume(txn)
Dispute == \E txn \in Records("Dispute") : Consume(txn)
Resolve == \E txn \in Records("Resolve") : Consume(txn)
Chargeback == \E txn \in Records("Chargeback") : Consume(txn)

\* The iterator is exhausted: main prints the accounts and returns.
OutputClientStates ==
    /\ pc = "loop"
    /\ pc' = "done"
    /\ UNCHANGED <<engine_vars, processed, history_vars>>

Next ==
    \/ Deposit
    \/ Withdrawal
    \/ Dispute
    \/ Resolve
    \/ Chargeback
    \/ OutputClientStates

Spec == Init /\ [][Next]_vars

\* ---------------------------------------------------------------- claims
\* The step just taken processed txn.
Processing(txn) == processed' = processed + 1 /\ last' = Some(txn)

\* Some record has been processed, and it is of one of the kinds tys.
LastIs(tys) == IsSome(last) /\ Unwrap(last).type \in tys

\* C1: in every reachable state, every account that is not locked has
\* total = available + held.
C1_UnlockedTotalIsSum ==
    \A c \in DOMAIN clients :
        ~clients[c].locked =>
            clients[c].total = clients[c].available + clients[c].held

\* Reached: a dispute has just moved funds into held on an unlocked account.
C1_Witness ==
    /\ clean_input
    /\ LastIs({"Dispute"})
    /\ ContainsKey(clients, Unwrap(last).client)
    /\ ~clients[Unwrap(last).client].locked
    /\ clients[Unwrap(last).client].held > 0

\* C2: a withdrawal whose amount exceeds the available funds of its client,
\* or whose client has no account, leaves the accounts, the transactions
\* table and the disputed table as they were (so no account is created and
\* the tx id is not stored).
C2_RejectedWithdrawalChangesNothing ==
    [][\A txn \in Records("Withdrawal") :
          ( /\ Processing(txn)
            /\ \/ ~ContainsKey(clients, txn.client)
               \/ /\ IsSome(txn.amount)
                  /\ Unwrap(txn.amount) > clients[txn.client].available )
          => UNCHANGED <<clients, transactions, disputed_transactions>>]_vars

\* Reached: a withdrawal of more than the available funds of an existing,
\* unlocked account has been processed.
C2_Witness ==
    /\ clean_input
    /\ LastIs({"Withdrawal"})
    /\ IsSome(Unwrap(last).amount)
    /\ IsSome(before)
    /\ ~Unwrap(before).locked
    /\ Unwrap(Unwrap(last).amount) > Unwrap(before).available

\* C3: a deposit or withdrawal addressed to a locked account leaves that
\* account as it was and the transactions table as it was (its tx id is not
\* added).
C3_LockedAccountRejects ==
    [][\A txn \in Records("Deposit") \cup Records("Withdrawal") :
          ( /\ Processing(txn)
            /\ ContainsKey(clients, txn.client)
            /\ clients[txn.client].locked )
          => /\ clients'[txn.client] = clients[txn.client]
             /\ transactions' = transactions]_vars

\* Reached: a deposit or withdrawal carrying an amount has been processed for
\* an account that was locked.
C3_Witness ==
    /\ clean_input
    /\ LastIs({"Deposit", "Withdrawal"})
    /\ IsSome(Unwrap(last).amount)
    /\ IsSome(before)
    /\ Unwrap(before).locked

\* C4: a dispute whose tx id is not in the transactions table, or is stored
\* for another client, changes no account and neither table.
C4_UnknownOrForeignDisputeChangesNothing ==
    [][\A txn \in Records("Dispute") :
          (Processing(txn) /\ ~RefersToOwnStored(Engine, txn))
          => UNCHANGED <<clients, transactions, disputed_transactions>>]_vars

\* Reached: a dispute has been processed that names a transaction stored for
\* another client, whose amount is present.
C4_Witness ==
    /\ clean_input
    /\ LastIs({"Dispute"})
    /\ ContainsKey(transactions, Unwrap(last).tx)
    /\ transactions[Unwrap(last).tx].client # Unwrap(last).client
    /\ IsSome(transactions[Unwrap(last).tx].amount)

\* C5: a dispute of a stored transaction of the same client keeps total, and
\* the resolve of the same tx id that follows it at once keeps total and
\* returns available and held to their values before the dispute.
C5_DisputeResolveRoundTrip ==
    IsSome(dispute_snap) =>
        LET snap == Unwrap(dispute_snap)
            now == clients[snap.client]
        IN  /\ now.total = snap.account.total
            /\ LastIs({"Resolve"}) =>
                  /\ now.available = snap.account.available
                  /\ now.held = snap.account.held

\* Reached: a resolve has followed the dispute of a stored transaction that
\* carries an amount.
C5_Witness ==
    /\ clean_input
    /\ IsSome(dispute_snap)
    /\ LastIs({"Resolve"})
    /\ IsSome(transactions[Unwrap(dispute_snap).tx].amount)

\* C6: a chargeback of a disputed tx id, stored for the same client with
\* amount a, locks the account, takes a from held, and takes a from total
\* leaving available alone, unless available < 0 or total - a < 0, when
\* available and total both become 0.  In particular an input of three
\* records that ends in an applied chargeback (deposit, dispute, chargeback)
\* ends with available = held = total = 0 and the account locked.
C6_ChargebackEffect ==
    [][\A txn \in Records("Chargeback") :
          ( /\ Processing(txn)
            /\ ContainsKey(disputed_transactions, txn.tx)
            /\ RefersToOwnStored(Engine, txn)
            /\ IsSome(transactions[txn.tx].amount)
            /\ ContainsKey(clients, txn.client) )
          => LET a == Unwrap(transactions[txn.tx].amount)
                 old == clients[txn.client]
                 new == clients'[txn.client]
                 clamp == old.available < 0 \/ old.total - a < 0
             IN  /\ new.locked
                 /\ new.held = old.held - a
                 /\ new.total = IF clamp THEN 0 ELSE old.total - a
                 /\ new.available = IF clamp THEN 0 ELSE old.available
                 /\ (processed = 2 /\ ~old.locked) =>
                        new = [available |-> 0, held |-> 0, total |-> 0,
                               locked |-> TRUE]]_vars

\* Reached: a chargeback has been applied to an account whose available funds
\* were negative, and has zeroed available and total.
C6_Witness ==
    /\ clean_input
    /\ LastIs({"Chargeback"})
    /\ IsSome(before)
    /\ ~Unwrap(before).locked
    /\ Unwrap(before).available < 0
    /\ clients[Unwrap(last).client].locked
    /\ clients[Unwrap(last).client].available = 0
    /\ clients[Unwrap(last).client].total = 0

\* C7: an account that is locked stays in the directory and stays locked in
\* every later state.
C7_LockIsPermanent ==
    [][\A c \in DOMAIN clients :
          clients[c].locked =>
              ContainsKey(clients', c) /\ clients'[c].locked]_vars

\* Reached: a record of any kind has been processed for an account that was
\* already locked.
C7_Witness ==
    /\ clean_input
    /\ IsSome(last)
    /\ IsSome(before)
    /\ Unwrap(before).locked
    /\ processed = MaxRecords

\* C8: while only deposits and withdrawals have been addressed to a client,
\* its available and total equal its deposits minus the withdrawals that
\* passed the funds check, held is 0 and the account is not locked; and the
\* deposit or successful withdrawal processed last is in the transactions
\* table under its tx id.
C8_DepositsMinusWithdrawals ==
    /\ \A c \in ClientIds :
          IsSome(net[c]) =>
              IF ContainsKey(clients, c)
              THEN clients[c] = [available |-> Unwrap(net[c]), held |-> 0,
                                 total |-> Unwrap(net[c]), locked |-> FALSE]
              ELSE Unwrap(net[c]) = 0
    /\ ( /\ LastIs({"Deposit", "Withdrawal"})
         /\ IsSome(net[Unwrap(last).client])
         /\ \/ Unwrap(last).type = "Deposit"
            \/ /\ IsSome(before)
               /\ IsSome(Unwrap(last).amount)
               /\ Unwrap(before).available >= Unwrap(Unwrap(last).amount) )
       => /\ ContainsKey(transactions, Unwrap(last).tx)
          /\ transactions[Unwrap(last).tx] = Unwrap(last)

\* Reached: after deposits only, a withdrawal of a positive amount has passed
\* the funds check.
C8_Witness ==
    /\ clean_input
    /\ LastIs({"Withdrawal"})
    /\ IsSome(net[Unwrap(last).client])
    /\ IsSome(before)
    /\ IsSome(Unwrap(last).amount)
    /\ Unwrap(Unwrap(last).amount) > 0
    /\ Unwrap(before).available >= Unwrap(Unwrap(last).amount)

\* C9: every account that is not locked has held >= 0.  Stated for the
\* inputs the data model allows: no negative amount and no tx id used by two
\* deposit or withdrawal records.
C9_HeldNonNegative ==
    clean_input =>
        \A c \in DOMAIN clients : ~clients[c].locked => clients[c].held >= 0

\* C10: a deposit whose amount is absent or not positive is a no-op: the
\* account exists already and is as it was, and the record is not in the
\* transactions table.
C10_NonPositiveDepositIsNoOp ==
    ( /\ LastIs({"Deposit"})
      /\ \/ ~IsSome(Unwrap(last).amount)
         \/ Unwrap(Unwrap(last).amount) <= 0 )
    => /\ IsSome(before)
       /\ clients[Unwrap(last).client] = Unwrap(before)
       /\ ~ ( /\ ContainsKey(transactions, Unwrap(last).tx)
              /\ transactions[Unwrap(last).tx] = Unwrap(last) )

\* C11: a resolve or a chargeback whose tx id is not in the disputed table,
\* or is not stored for the client of the record, changes no account (locked
\* flags included) and neither table.
C11_UndisputedOrForeignChangesNothing ==
    [][\A txn \in Records("Resolve") \cup Records("Chargeback") :
          ( /\ Processing(txn)
            /\ \/ ~ContainsKey(disputed_transactions, txn.tx)
               \/ ~RefersToOwnStored(Engine, txn) )
          => UNCHANGED <<clients, transactions, disputed_transactions>>]_vars

\* Reached: a resolve or chargeback has been processed for a stored
\* transaction of its own client, carrying an amount, that nobody disputed.
C11_Witness ==
    /\ clean_input
    /\ LastIs({"Resolve", "Chargeback"})
    /\ RefersToOwnStored(Engine, Unwrap(last))
    /\ IsSome(transactions[Unwrap(last).tx].amount)
    /\ ~ContainsKey(disputed_transactions, Unwrap(last).tx)

\* C12: every tx id that is a key of the disputed table is a key of the
\* transactions table.
C12_DisputedIsStored ==
    DOMAIN disputed_transactions \subseteq DOMAIN transactions

\* Reached: a dispute has been registered, and a dispute of an unknown tx id
\* has been processed last.
C12_Witness ==
    /\ clean_input
    /\ DOMAIN disputed_transactions # {}
    /\ LastIs({"Dispute"})
    /\ ~ContainsKey(transactions, Unwrap(last).tx)

\* All rows the parser can hand to the engine.
AllRecords ==
    UNION {Records(ty) :
             ty \in {"Deposit", "Withdrawal", "Dispute", "Resolve", "Chargeback"}}

\* C13, as claimed: the directory holds an account for exactly the client
\* ids of the records processed so far, whatever their kind; that is, each
\* processed record adds its client id to the keys and nothing else changes
\* them.
C13_AccountForEveryReferencedClient ==
    [][\A txn \in AllRecords :
          Processing(txn) =>
              DOMAIN clients' = (DOMAIN clients) \cup {txn.client}]_vars

\* C13, amended: the directory holds an account for exactly the client ids
\* of the deposit records processed so far; records of the other four kinds
\* create no account, and no account is ever removed.
C13_AccountForEveryDepositClient ==
    [][\A txn \in AllRecords :
          Processing(txn) =>
              DOMAIN clients' =
                  (DOMAIN clients) \cup
                      (IF txn.type = "Deposit" THEN {txn.client} ELSE {})]_vars

\* Reached: one client got its account by a deposit, and a withdrawal has
\* been processed for another client, which still has no account.
C13_Witness ==
    /\ clean_input
    /\ LastIs({"Withdrawal"})
    /\ IsSome(Unwrap(last).amount)
    /\ ~ContainsKey(clients, Unwrap(last).client)
    /\ DOMAIN clients # {}

\* C14: the disputed table never loses a key, whatever is processed; and a
\* resolve that repeats the record processed just before it (a second
\* resolve with no dispute in between), for a disputed tx id stored for its
\* client with amount a, is applied again: available grows by a and held
\* drops by a.
C14_DisputedNeverShrinks ==
    [][/\ DOMAIN disputed_transactions \subseteq DOMAIN disputed_transactions'
       /\ \A txn \in Records("Resolve") :
             ( /\ Processing(txn)
               /\ last = Some(txn)
               /\ ContainsKey(disputed_transactions, txn.tx)
               /\ RefersToOwnStored(Engine, txn)
               /\ IsSome(transactions[txn.tx].amount)
               /\ ContainsKey(clients, txn.client) )
             => LET a == Unwrap(transactions[txn.tx].amount)
                IN  /\ clients'[txn.client].available =
                           clients[txn.client].available + a
                    /\ clients'[txn.client].held =
                           clients[txn.client].held - a]_vars

\* Reached: the same resolve has been processed twice in a row for a disputed
\* deposit of a positive amount, and the second one moved the funds again.
C14_Witness ==
    /\ clean_input
    /\ repeated
    /\ LastIs({"Resolve"})
    /\ ContainsKey(disputed_transactions, Unwrap(last).tx)
    /\ RefersToOwnStored(Engine, Unwrap(last))
    /\ IsSome(transactions[Unwrap(last).tx].amount)
    /\ IsSome(before)
    /\ clients[Unwrap(last).client].available > Unwrap(before).available
    /\ clients[Unwrap(last).client].held < Unwrap(before).held

\* C15: after a dispute of a stored transaction and the resolve of the same
\* tx id that follows it, a further dispute of that tx id leaves the
\* available and held of the account as they are.  Stated for the inputs the
\* data model allows.
C15_ResolvedIsNotRedisputable ==
    [][\A txn \in Records("Dispute") :
          ( /\ Processing(txn)
            /\ clean_input
            /\ LastIs({"Resolve"})
            /\ IsSome(dispute_snap)
            /\ Unwrap(dispute_snap).client = txn.client
            /\ Unwrap(dispute_snap).tx = txn.tx )
          => /\ clients'[txn.client].available = clients[txn.client].available
             /\ clients'[txn.client].held = clients[txn.client].held]_vars

\* The record processed last is a dispute, resolve or chargeback that names a
\* stored transaction of its own client which carries an amount, on an
\* account that existed; for a resolve or chargeback the tx id is disputed.
\* (These three handlers write neither the transactions table nor, the
\* dispute apart, the disputed table, so the tables read here are those the
\* handler saw.)
LastIsApplicable(tys) ==
    /\ LastIs(tys)
    /\ IsSome(before)
    /\ RefersToOwnStored(Engine, Unwrap(last))
    /\ IsSome(transactions[Unwrap(last).tx].amount)
    /\ Unwrap(last).type # "Dispute" =>
           ContainsKey(disputed_transactions, Unwrap(last).tx)

\* The amount of the transaction the record processed last refers to.
LastAmount == Unwrap(transactions[Unwrap(last).tx].amount)

\* The account of the client of the record processed last.
LastAccount == clients[Unwrap(last).client]

\* C16: the lock does not stop the dispute machinery.  On a locked account a
\* dispute of a stored transaction of the same client still moves its amount
\* from available to held, a resolve of a disputed one still moves it back,
\* and a chargeback of a disputed one still takes it from held.
C16_LockDoesNotBlockDisputes ==
    (LastIsApplicable({"Dispute", "Resolve", "Chargeback"})
        /\ Unwrap(before).locked)
    => /\ LastAccount.locked
       /\ Unwrap(last).type = "Dispute" =>
             /\ LastAccount.available = Unwrap(before).available - LastAmount
             /\ LastAccount.held = Unwrap(before).held + LastAmount
       /\ Unwrap(last).type = "Resolve" =>
             /\ LastAccount.available = Unwrap(before).available + LastAmount
             /\ LastAccount.held = Unwrap(before).held - LastAmount
       /\ Unwrap(last).type = "Chargeback" =>
             LastAccount.held = Unwrap(before).held - LastAmount

\* Reached: a dispute has changed available and held of a locked account.
C16_Witness ==
    /\ clean_input
    /\ LastIsApplicable({"Dispute"})
    /\ Unwrap(before).locked
    /\ LastAccount.available # Unwrap(before).available
    /\ LastAccount.held # Unwrap(before).held

C18_ClampLeavesHeld ==
    ( /\ LastIsApplicable({"Chargeback"})
      /\ \/ Unwrap(before).available < 0
         \/ Unwrap(before).total - LastAmount < 0 )
    => /\ LastAccount.available = 0
       /\ LastAccount.total = 0
       /\ LastAccount.held = Unwrap(before).held - LastAmount
       /\ LastAccount.locked

\* Reached: a chargeback has hit the clamp while more than its amount was
\* held, and the account has total # available + held.
C18_Witness ==
    /\ clean_input
    /\ LastIsApplicable({"Chargeback"})
    /\ Unwrap(before).available < 0
    /\ Unwrap(before).held > LastAmount
    /\ LastAccount.total # LastAccount.available + LastAccount.held

\* C19: there is no fail state.  The run is either in the loop or done; while
\* the loop still has input to read (at most MaxRecords records), every record
\* of every kind, client id, tx id and amount is accepted in every reachable
\* state; and the run is never stuck before it is done, so, each step
\* consuming one of finitely many records or ending the run, it ends, and
\* it ends only by the step taken when the input is exhausted.
C19_NoFailState ==
    /\ pc \in {"loop", "done"}
    /\ processed \in 0..MaxRecords
    /\ pc = "done" \/ ENABLED Next
    /\ (pc = "loop" /\ processed < MaxRecords) =>
           \A txn \in AllRecords : ENABLED Consume(txn)

\* Reached: the run is done after MaxRecords records, the last of which was
\* rejected (a withdrawal for a client without an account).
C19_Witness ==
    /\ pc = "done"
    /\ processed = MaxRecords
    /\ LastIs({"Withdrawal"})
    /\ ~ContainsKey(clients, Unwrap(last).client)

\* C20: processing a record of client c leaves every other account as it
\* was: none is changed, removed or created, whatever the kind of the record
\* and whichever client its tx id is stored for.
C20_ClientIsolation ==
    [][\A txn \in AllRecords :
          Processing(txn) =>
              \A c \in ((DOMAIN clients) \cup (DOMAIN clients')) \ {txn.client} :
                  /\ ContainsKey(clients, c)
                  /\ ContainsKey(clients', c)
                  /\ clients'[c] = clients[c]]_vars

\* Reached: a chargeback of one client has been processed for a disputed tx
\* id that is stored for another client, whose account holds the funds.
C20_Witness ==
    /\ clean_input
    /\ LastIs({"Chargeback"})
    /\ ContainsKey(disputed_transactions, Unwrap(last).tx)
    /\ ContainsKey(transactions, Unwrap(last).tx)
    /\ transactions[Unwrap(last).tx].client # Unwrap(last).client
    /\ ContainsKey(clients, transactions[Unwrap(last).tx].client)
    /\ clients[transactions[Unwrap(last).tx].client].held > 0

====
